---- MODULE Spec2Model ----
(***************************************************************************)
(* Model of app.py, the Streamlit dashboard "Howard County 2026 County     *)
(* Executive - Campaign Contributions".                                    *)
(*                                                                         *)
(* The script is re-run top to bottom on every user interaction.  A run is *)
(* modelled as a sequence of segments, one per backend call site and the   *)
(* rendering code that follows it; between two segments the backend may    *)
(* complete an ingestion and cached entries may age.  State that survives  *)
(* a run is the st.cache_data cache and the backend store.                 *)
(*                                                                         *)
(* Strings the code inspects character by character (names, e-mail) are    *)
(* sequences of ASCII codes; enumerated labels are TLA+ strings.           *)
(***************************************************************************)
EXTENDS Integers, Sequences, FiniteSets, TLC

(* ------------------------------ bounds -------------------------------- *)
\* backend ingestions completed during a behaviour
MaxIngest == 1
\* script runs per behaviour
MaxRuns == 2
\* backend calls per behaviour that end otherwise than with a list of rows
MaxFaults == 1
\* rows an RPC response of the donor-history tab may carry
MaxHistRows == 2
\* largest "Show top N donors" slider position explored
MaxTopN == 10
\* largest "How many top donors to include" slider position explored
MaxLimit == 100

(* ------------------------- program constants -------------------------- *)
SCOPE_YEAR == 2026
TopNMin == 10
TopNMax == 200
TopNStep == 10
LimitMin == 100
LimitMax == 5000
LimitStep == 100

\* Python None in a label-valued position / in a character-string position
None == "None"
NoneName == <<0>>

(* ------------------------------ strings ------------------------------- *)
LEE == <<76, 69, 69>>
\* the same surname as the store holds it for another row: "Lee"
Lee == <<76, 101, 101>>
ROE == <<82, 79, 69>>
DOE == <<68, 79, 69>>
ABE == <<65, 66, 69>>
AL == <<65, 76>>
BO == <<66, 79>>

\* bool(s) of an optional character string
Truthy(s) == s # NoneName /\ s # << >>

\* str.lower(), ASCII letters
LowerChar(c) == IF c >= 65 /\ c <= 90 THEN c + 32 ELSE c
Lower(s) == [i \in 1..Len(s) |-> LowerChar(s[i])]

\* str.strip(): leading and trailing blanks removed
RECURSIVE LStrip(_)
LStrip(s) == IF s # << >> /\ Head(s) = 32 THEN LStrip(Tail(s)) ELSE s
RECURSIVE RStrip(_)
RStrip(s) == IF s # << >> /\ s[Len(s)] = 32 THEN RStrip(SubSeq(s, 1, Len(s) - 1)) ELSE s
Strip(s) == RStrip(LStrip(s))

\* lexicographic s < t on character strings
RECURSIVE StrLess(_, _)
StrLess(s, t) ==
    IF t = << >> THEN FALSE
    ELSE IF s = << >> THEN TRUE
    ELSE IF Head(s) # Head(t) THEN Head(s) < Head(t)
    ELSE StrLess(Tail(s), Tail(t))

\* a Python value that is either None or a list
PyNone == [null |-> TRUE, data |-> << >>]
PyList(rows) == [null |-> FALSE, data |-> rows]

\* pd.DataFrame(rows or []): the table as its sequence of rows
to_df(x) == IF x.null \/ x.data = << >> THEN << >> ELSE x.data

\* descending lexicographic order on tuples of numbers of equal length
RECURSIVE KeyBefore(_, _)
KeyBefore(a, b) ==
    IF a = << >> THEN FALSE
    ELSE IF Head(a) # Head(b) THEN Head(a) > Head(b)
    ELSE KeyBefore(Tail(a), Tail(b))

\* stable insertion of the pair p = <<key, row>> into a sorted list of pairs
RECURSIVE InsertPair(_, _)
InsertPair(sorted, p) ==
    IF sorted = << >> THEN <<p>>
    ELSE IF KeyBefore(p[1], Head(sorted)[1]) THEN <<p>> \o sorted
    ELSE <<Head(sorted)>> \o InsertPair(Tail(sorted), p)
RECURSIVE SortPairs(_)
SortPairs(ps) ==
    IF ps = << >> THEN << >>
    ELSE InsertPair(SortPairs(SubSeq(ps, 1, Len(ps) - 1)), ps[Len(ps)])

\* DataFrame.sort_values(cols, ascending=False): descending on the key columns,
\* rows that tie on every key column keep the order they arrived in
\* (keys[i] is the tuple of row i's values in the key columns)
SortValuesDesc(rows, keys) ==
    LET ps == SortPairs([i \in 1..Len(rows) |-> <<keys[i], rows[i]>>])
    IN [i \in 1..Len(ps) |-> ps[i][2]]

Take(rows, n) == SubSeq(rows, 1, IF Len(rows) < n THEN Len(rows) ELSE n)

(* --------------------------- backend store ---------------------------- *)
\* The store after v completed ingestions, seen through the views the page
\* reads.  Version 0 is the store before the first ingestion.
SCOPE_OFFICE == "County Executive"
SCOPE_SEAT == "AtLarge"

InScope(r) ==
    r.election_year = SCOPE_YEAR /\ r.office = SCOPE_OFFICE /\ r.seat = SCOPE_SEAT

Scoped(year, fields) ==
    fields @@ [election_year |-> year, office |-> SCOPE_OFFICE, seat |-> SCOPE_SEAT]

CandidatesView(v) ==
    IF v = 0
    THEN << [candidate_last |-> DOE, candidate_first |-> NoneName] >>
    ELSE << [candidate_last |-> LEE, candidate_first |-> AL],
            [candidate_last |-> DOE, candidate_first |-> NoneName],
            [candidate_last |-> ROE, candidate_first |-> BO],
            [candidate_last |-> Lee, candidate_first |-> AL] >>

TotalsView(v) ==
    IF v = 0 THEN << >>
    ELSE << Scoped(SCOPE_YEAR, [candidate_last |-> ROE, candidate_first |-> BO,
                                total_amount |-> 40 * v, txn_count |-> 2 * v]),
            Scoped(SCOPE_YEAR - 4, [candidate_last |-> LEE, candidate_first |-> AL,
                                    total_amount |-> 7, txn_count |-> 1]),
            Scoped(SCOPE_YEAR, [candidate_last |-> LEE, candidate_first |-> AL,
                                total_amount |-> 100 * v, txn_count |-> 3 * v]),
            Scoped(SCOPE_YEAR, [candidate_last |-> Lee, candidate_first |-> AL,
                                total_amount |-> 9, txn_count |-> 1]) >>

ByTypeRow(last, first, group, amount) ==
    Scoped(SCOPE_YEAR, [candidate_last |-> last, candidate_first |-> first,
                        contributor_type_group |-> group, total_amount |-> amount,
                        txn_count |-> amount \div 5, unique_donors |-> amount \div 10])

ByTypeView(v) ==
    IF v = 0 THEN << >>
    ELSE << ByTypeRow(LEE, AL, "Unknown", 10 * v),
            ByTypeRow(LEE, AL, "Individual", 60 * v),
            ByTypeRow(ROE, BO, "Public Financing", 15 * v),
            ByTypeRow(LEE, AL, "Entity", 30 * v),
            ByTypeRow(ROE, BO, None, 5 * v),
            ByTypeRow(ROE, BO, "Individual", 20 * v),
            ByTypeRow(Lee, AL, "Individual", 5) >>

\* contributor_type_group of the i-th donor of the donor view
GroupOf(i) ==
    CASE i % 5 = 1 -> "Individual"
      [] i % 5 = 2 -> "Entity"
      [] i % 5 = 3 -> "Unknown"
      [] i % 5 = 4 -> "Public Financing"
      [] OTHER -> None

\* donors of LEE in the store: more than the smallest "top N" once ingested
NDonors(v) == IF v = 0 THEN 0 ELSE TopNMin + v

DonorRow(last, i, v) ==
    Scoped(SCOPE_YEAR, [candidate_last |-> last, contributor_name |-> i,
                        contributor_type_group |-> GroupOf(i),
                        total_amount |-> 10 * i + v])

DonorView(v) ==
    [i \in 1..NDonors(v) |-> DonorRow(LEE, i, v)]
    \o (IF v = 0 THEN << >> ELSE << DonorRow(ROE, 1, v), DonorRow(ROE, 3, v) >>)

\* what get_overlap_summary_for_candidate returns (stored procedure, opaque):
\* one row per other candidate sharing donors, and a row without a name
OtherOf(last) == IF last = LEE THEN [l |-> ROE, f |-> BO] ELSE [l |-> LEE, f |-> AL]

SummaryRpc(v, last, ctype) ==
    IF v = 0 \/ ctype = "Entity" THEN << >>
    ELSE << [other_candidate_last |-> NoneName, other_candidate_first |-> NoneName,
             shared_donors |-> 1, shared_amount_to_candidate |-> 5,
             shared_amount_to_other |-> 5],
            [other_candidate_last |-> OtherOf(last).l,
             other_candidate_first |-> OtherOf(last).f,
             shared_donors |-> 2 * v, shared_amount_to_candidate |-> 30 * v,
             shared_amount_to_other |-> 20] >>

\* what get_donor_overlap_pairwise returns (stored procedure, opaque)
PairwiseRpc(v, a, b, ctype) ==
    IF v = 0 \/ ctype = "Entity" THEN << >>
    ELSE << [contributor_name |-> 1, amount_to_a |-> 10, amount_to_b |-> 30 * v],
            [contributor_name |-> 2, amount_to_a |-> 20, amount_to_b |-> 5] >>

(* ----------------------- helpers of the script ------------------------ *)
KeepLower ==
    { <<111, 102>>, <<97, 110, 100>>, <<116, 104, 101>>, <<102, 111, 114>>,
      <<116, 111>>, <<105, 110>>, <<111, 110>>, <<97, 116>> }

IsSpace(c) == c = 32 \/ (c >= 9 /\ c <= 13)

\* str.capitalize() of an already lower-cased word
Capitalize(w) ==
    [i \in 1..Len(w) |-> IF i = 1 /\ w[i] >= 97 /\ w[i] <= 122 THEN w[i] - 32 ELSE w[i]]

\* length of the leading word (maximal run of non-blank characters) of s
RECURSIVE WordLen(_)
WordLen(s) == IF s = << >> \/ IsSpace(Head(s)) THEN 0 ELSE 1 + WordLen(Tail(s))

RECURSIVE TitleParts(_)
TitleParts(s) ==
    IF s = << >> THEN << >>
    ELSE IF IsSpace(Head(s)) THEN <<Head(s)>> \o TitleParts(Tail(s))
    ELSE LET n == WordLen(s)
             low == Lower(SubSeq(s, 1, n))
         IN (IF low \in KeepLower THEN low ELSE Capitalize(low))
            \o TitleParts(SubSeq(s, n + 1, Len(s)))

title_case_name(s) == IF ~Truthy(s) THEN s ELSE TitleParts(Strip(s))

\* f"{title_case_name(last)}, {title_case_name(first)}"
DisplayLabel(last, first) == title_case_name(last) \o <<44, 32>> \o title_case_name(first)

\* list.index(x): position of the first element equal to x
IndexOf(list, x) == CHOOSE i \in 1..Len(list) : list[i] = x /\ \A j \in 1..(i - 1) : list[j] # x

(* ------------------------ backend responses --------------------------- *)
\* How a backend call ends: a response whose data is a list, a response whose
\* data is None, a response object without a data attribute, or an exception
\* raised by execute().
Outcomes == {"rows", "none", "absent", "raise"}

Response(o, rows) ==
    CASE o = "rows" -> [attr |-> TRUE, data |-> PyList(rows)]
      [] o = "none" -> [attr |-> TRUE, data |-> PyNone]
      [] OTHER -> [attr |-> FALSE, data |-> PyNone]

\* `resp.data or []`: AttributeError when the response has no data attribute
DataOrEmpty(resp) ==
    IF ~resp.attr THEN [raised |-> TRUE, ret |-> << >>]
    ELSE [raised |-> FALSE, ret |-> IF resp.data.null THEN << >> ELSE resp.data.data]

\* `getattr(resp, "data", None) or []`
GetattrDataOrEmpty(resp) ==
    [raised |-> FALSE,
     ret |-> IF ~resp.attr \/ resp.data.null THEN << >> ELSE resp.data.data]

\* the fetchers that read resp.data directly
Unguarded == {"fetch_candidates_ce_2026", "fetch_candidate_totals_fixed",
              "fetch_totals_by_type_fixed"}
\* variant of Cached: the two donor-history fetchers decorated as well
CachedWithHistory ==
    {"fetch_candidates_ce_2026", "fetch_candidate_totals_fixed",
     "fetch_totals_by_type_fixed", "fetch_overlap_summary_fixed",
     "fetch_overlap_pairwise_fixed", "fetch_top_donors_for_candidate_fixed",
     "fetch_donor_history_fixed", "fetch_entity_history_fixed"}

\* the fetchers decorated with st.cache_data
Cached == {"fetch_candidates_ce_2026", "fetch_candidate_totals_fixed",
           "fetch_totals_by_type_fixed", "fetch_overlap_summary_fixed",
           "fetch_overlap_pairwise_fixed", "fetch_top_donors_for_candidate_fixed"}
\* the cached fetchers whose entries expire (ttl=300)
WithTtl == {"fetch_top_donors_for_candidate_fixed"}

VARIABLES
    ingested,             \* completed ingestions of the backend store
    cache,                \* st.cache_data entries: [key, rows] (+ ghost ver, how)
    runs,                 \* script runs started
    faults,               \* backend calls so far that did not end with a list
    pc,                   \* position of the script
    cand_display, cand_last_list, cand_first_list,
    selected_last, selected_first,
    current_year_only, contrib_type_ui, p_contributor_type,
    show_all_candidates,
    summary_rows,
    picked,               \* position chosen in the candidate selectbox (0: none)
    run_history,          \* st.button("Run donor history") of this run
    pressed_before,       \* the button was pressed in an earlier run
    page,                 \* what the segment just executed put on the page
    reqs,                 \* backend endpoints called so far in this run
    sent                  \* requests issued by the segment just executed

vars == << ingested, cache, runs, faults, pc, cand_display, cand_last_list, cand_first_list,
           selected_last, selected_first, current_year_only, contrib_type_ui,
           p_contributor_type, show_all_candidates, summary_rows, picked, run_history,
           pressed_before, page, reqs, sent >>

locals == << cand_display, cand_last_list, cand_first_list, selected_last,
             selected_first, current_year_only, contrib_type_ui, p_contributor_type,
             show_all_candidates, summary_rows, picked >>

buttons == << run_history, pressed_before >>

\* One call of a fetcher: key is <<function name, arguments...>>, o the way the
\* backend call ends if one is made, rows what the backend would compute now.
\* ver and how are ghost fields: the ingestion count at which the value was
\* computed and the way the call that computed it ended.
Fetch(key, o, rows) ==
    LET fn == key[1]
        hits == IF fn \in Cached THEN {e \in cache : e.key = key} ELSE {}
        resp == Response(o, rows)
        got == IF fn \in Unguarded THEN DataOrEmpty(resp) ELSE GetattrDataOrEmpty(resp)
    IN IF hits # {}
       THEN LET e == CHOOSE e \in hits : TRUE
            IN [raised |-> FALSE, ret |-> e.rows, ver |-> e.ver, how |-> e.how,
                hit |-> TRUE, cache |-> cache]
       ELSE IF o = "raise" \/ got.raised
       THEN [raised |-> TRUE, ret |-> << >>, ver |-> ingested, how |-> o,
             hit |-> FALSE, cache |-> cache]
       ELSE [raised |-> FALSE, ret |-> got.ret, ver |-> ingested, how |-> o,
             hit |-> FALSE,
             cache |-> IF fn \in Cached
                       THEN cache \cup {[key |-> key, rows |-> got.ret,
                                         ver |-> ingested, how |-> o]}
                       ELSE cache]

\* the record of a served result on the page (ghost): which fetcher, computed
\* at which ingestion count, served at which, how the backend call had ended
Served(key, f) ==
    [fn |-> key[1], key |-> key, ver |-> f.ver, cur |-> ingested, how |-> f.how,
     raised |-> f.raised, ret |-> f.ret, hit |-> f.hit]

\* the ways a call with this key may end: a cache hit makes no backend call
OutcomesFor(key) ==
    IF key[1] \in Cached /\ \E e \in cache : e.key = key THEN {"rows"}
    ELSE IF faults < MaxFaults THEN Outcomes
    ELSE {"rows"}

Fault(f, o) == IF ~f.hit /\ o # "rows" THEN 1 ELSE 0

\* the contact form as a segment read it: the button, the e-mail text, and how
\* the insert ended ("not_called" when none was made)
NoForm == [submitted |-> FALSE, email |-> << >>, ins |-> "not_called"]
NoPage == [msgs |-> {}, table |-> << >>, served |-> {}, metrics |-> << >>, form |-> NoForm]

\* a request as the backend receives it; keys are the payload / filter names
\* sent; a holds their values (blank where the key is not sent)
BlankArgs == [last |-> NoneName, first |-> NoneName, other |-> NoneName,
              ctype |-> None, n |-> 0, cyo |-> FALSE, email |-> NoneName]
Request(fn, keys, a) == [fn |-> fn, keys |-> keys] @@ a
ScopeKeys == {"election_year", "office", "seat"}
RpcScopeKeys == {"p_election_year", "p_office", "p_seat"}

Init ==
    /\ ingested = 0
    /\ cache = {}
    /\ runs = 0
    /\ faults = 0
    /\ pc = "idle"
    /\ cand_display = << >>
    /\ cand_last_list = << >>
    /\ cand_first_list = << >>
    /\ selected_last = NoneName
    /\ selected_first = NoneName
    /\ current_year_only = FALSE
    /\ contrib_type_ui = "All"
    /\ p_contributor_type = None
    /\ show_all_candidates = FALSE
    /\ summary_rows = << >>
    /\ picked = 0
    /\ run_history = FALSE
    /\ pressed_before = FALSE
    /\ page = NoPage
    /\ reqs = {}
    /\ sent = {}

\* the ingestion pipeline completes a load of the store
Ingest ==
    /\ ingested < MaxIngest
    /\ ingested' = ingested + 1
    /\ UNCHANGED << cache, runs, faults, pc, locals, buttons, page, reqs, sent >>

\* an entry cached with ttl=300 has become older than its ttl
TtlExpire ==
    /\ \E e \in cache :
          /\ e.key[1] \in WithTtl
          /\ cache' = cache \ {e}
    /\ UNCHANGED << ingested, runs, faults, pc, locals, buttons, page, reqs, sent >>

\* the page a segment leaves: messages, table rows, metrics, and the result served
Page(msgs, table, metrics, key, f) ==
    [msgs |-> msgs, table |-> table, metrics |-> metrics, served |-> {Served(key, f)},
     form |-> NoForm]

\* an exception that leaves the script is rendered by Streamlit as an error box
ExceptionPage(key, f) == Page({"exception"}, << >>, << >>, key, f)

FnsOf(rs) == {r.fn : r \in rs}

(* ----------------------- sidebar (lines 223-283) ---------------------- *)
\* variant of ValidCandidates: `if last:` instead of `if last and first:`
ValidCandidatesLastOnly(rows) ==
    SelectSeq(rows, LAMBDA r : Truthy(r.candidate_last))

\* rows of the candidates view that have both names (lines 242-248)
ValidCandidates(rows) ==
    SelectSeq(rows, LAMBDA r : Truthy(r.candidate_last) /\ Truthy(r.candidate_first))

\* lines 250-252: st.warning(...); st.stop() when no candidate is left
StopsWithoutCandidates(display) == display = << >>

\* line 275
PContributorType(ui) == IF ui = "All" THEN None ELSE ui

RunSidebar ==
    /\ pc \in {"idle", "failed", "stopped", "done"}
    /\ runs < MaxRuns
    /\ runs' = runs + 1
    /\ LET key == <<"fetch_candidates_ce_2026">> IN
       \E o \in OutcomesFor(key) :
          LET f == Fetch(key, o, CandidatesView(ingested))
              req == IF f.hit THEN {}
                     ELSE {Request("v_candidates_ce_2026", {}, BlankArgs)}
              valid == ValidCandidates(f.ret)
              display == [i \in 1..Len(valid) |->
                             DisplayLabel(valid[i].candidate_last, valid[i].candidate_first)]
              blank == /\ picked' = 0
                   /\ selected_last' = NoneName
                       /\ selected_first' = NoneName
                       /\ current_year_only' = FALSE
                       /\ contrib_type_ui' = "All"
                       /\ p_contributor_type' = None
          IN /\ cache' = f.cache
             /\ faults' = faults + Fault(f, o)
             /\ reqs' = FnsOf(req)
             /\ sent' = req
             /\ show_all_candidates' = FALSE
             /\ summary_rows' = << >>
             /\ run_history' = FALSE
             /\ pressed_before' = (pressed_before \/ run_history)
             /\ IF f.raised
                THEN /\ pc' = "failed"
                     /\ page' = ExceptionPage(key, f)
                     /\ cand_display' = << >>
                     /\ cand_last_list' = << >>
                     /\ cand_first_list' = << >>
                     /\ blank
                ELSE /\ cand_display' = display
                     /\ cand_last_list' = [i \in 1..Len(valid) |-> valid[i].candidate_last]
                     /\ cand_first_list' = [i \in 1..Len(valid) |-> valid[i].candidate_first]
                     /\ IF StopsWithoutCandidates(display)
                        THEN /\ pc' = "stopped"
                             /\ page' = Page({"warn_no_candidates"}, << >>, << >>, key, f)
                             /\ blank
                        ELSE \E pick \in 1..Len(display), cyo \in BOOLEAN,
                                ui \in {"All", "Individual", "Entity"} :
                                LET sel_idx == IndexOf(display, display[pick])
                                    ptype == PContributorType(ui)
                                IN /\ picked' = pick
                                   /\ selected_last' = valid[sel_idx].candidate_last
                                   /\ selected_first' = valid[sel_idx].candidate_first
                                   /\ current_year_only' = cyo
                                   /\ contrib_type_ui' = ui
                                   /\ p_contributor_type' = ptype
                                   /\ page' = Page(IF ptype = "Entity" THEN {"info_entity_sidebar"}
                                                   ELSE {}, << >>, << >>, key, f)
                                   /\ pc' = "form"
    /\ UNCHANGED ingested

(* --------------------- contact form (lines 285-311) ------------------- *)
\* e-mail texts typed into the form: "", "a", " a@b"
Emails == { << >>, <<97>>, <<32, 97, 64, 98>> }

Contains(s, c) == \E i \in 1..Len(s) : s[i] = c

\* variant of EmailRejected: only the empty text is refused
EmailRejectedEmptyOnly(email) == email = << >>

\* line 295: `not email or "@" not in email`
EmailRejected(email) == email = << >> \/ ~Contains(email, 64)

\* lines 298-311: ins is how the insert ends; success needs a response whose
\* data is not None and no exception
SignupMessage(ins) == IF ins = "rows" THEN "ok_signed_up" ELSE "err_signup_failed"

\* name, zip5 and source are sent stripped, None when blank; only the e-mail
\* text is varied here
RunContactForm ==
    /\ pc = "form"
    /\ pc' = "totals"
    /\ \E submitted \in BOOLEAN, email \in Emails :
          IF ~submitted
          THEN /\ page' = NoPage
               /\ sent' = {}
               /\ UNCHANGED << reqs, faults >>
          ELSE IF EmailRejected(email)
          THEN /\ page' = [NoPage EXCEPT !.msgs = {"err_invalid_email"},
                                         !.form = [NoForm EXCEPT !.submitted = TRUE,
                                                                 !.email = email]]
               /\ sent' = {}
               /\ UNCHANGED << reqs, faults >>
          ELSE \E ins \in (IF faults < MaxFaults THEN Outcomes ELSE {"rows"}) :
               LET req == Request("contact_signups.insert",
                                  {"email", "name", "zip5", "source"},
                                  [BlankArgs EXCEPT !.email = Strip(email)])
               IN /\ page' = [NoPage EXCEPT !.msgs = {SignupMessage(ins)},
                                            !.form = [submitted |-> TRUE, email |-> email,
                                                      ins |-> ins]]
                  /\ sent' = {req}
                  /\ reqs' = reqs \cup {req.fn}
                  /\ faults' = faults + (IF ins # "rows" THEN 1 ELSE 0)
    /\ UNCHANGED << ingested, cache, runs, locals, buttons >>

(* ------------------- overview tab (lines 324-465) --------------------- *)
\* Series.fillna("") on a name column
FillNa(x) == IF x = NoneName THEN << >> ELSE x

RECURSIVE SumSeq(_)
SumSeq(xs) == IF xs = << >> THEN 0 ELSE Head(xs) + SumSeq(Tail(xs))

\* the mask of lines 351-353 and 390-392
SameLast(r) == Lower(FillNa(r.candidate_last)) = Lower(FillNa(selected_last))

\* totals_df after the "Show all candidates" filter (lines 349-353)
TotalsShown(rows, show_all) == IF show_all THEN rows ELSE SelectSeq(rows, SameLast)

TotalsTable(rows) ==
    LET sorted == SortValuesDesc(rows, [i \in 1..Len(rows) |-> <<rows[i].total_amount>>])
    IN [i \in 1..Len(sorted) |->
           [candidate_display |-> DisplayLabel(FillNa(sorted[i].candidate_last),
                                               FillNa(sorted[i].candidate_first)),
            total_amount |-> sorted[i].total_amount,
            txn_count |-> sorted[i].txn_count]]

RunTotals ==
    /\ pc = "totals"
    /\ LET key == <<"fetch_candidate_totals_fixed">> IN
       \E o \in OutcomesFor(key), show_all \in BOOLEAN :
          LET f == Fetch(key, o, SelectSeq(TotalsView(ingested), InScope))
              req == IF f.hit THEN {}
                     ELSE {Request("v_candidate_totals", ScopeKeys, BlankArgs)}
              totals_df == to_df(PyList(f.ret))
              shown == TotalsShown(totals_df, show_all)
          IN /\ cache' = f.cache
             /\ faults' = faults + Fault(f, o)
             /\ reqs' = reqs \cup FnsOf(req)
             /\ sent' = req
             /\ IF f.raised
                THEN /\ pc' = "failed"
                     /\ page' = ExceptionPage(key, f)
                     /\ UNCHANGED show_all_candidates
                ELSE IF totals_df = << >>
                THEN /\ pc' = "summary"
                     /\ page' = Page({"info_no_totals"}, << >>, << >>, key, f)
                     /\ UNCHANGED show_all_candidates
                ELSE /\ pc' = "bytype"
                     /\ show_all_candidates' = show_all
                     /\ page' = Page({}, TotalsTable(shown),
                                     << SumSeq([i \in 1..Len(shown) |-> shown[i].total_amount]),
                                        SumSeq([i \in 1..Len(shown) |-> shown[i].txn_count]) >>,
                                     key, f)
    /\ UNCHANGED << ingested, runs, cand_display, cand_last_list, cand_first_list,
                    selected_last, selected_first, current_year_only,
                    contrib_type_ui, p_contributor_type, summary_rows, picked, buttons >>

\* variant of TypeFilter: the mask is applied even when no type is selected
TypeFilterAlways(rows, ptype) ==
    SelectSeq(rows, LAMBDA r : r.contributor_type_group = ptype)

\* by_type_df after the candidate filter and the contributor-type filter
\* (lines 389-395); ptype is p_contributor_type
TypeFilter(rows, ptype) ==
    IF ptype # None THEN SelectSeq(rows, LAMBDA r : r.contributor_type_group = ptype)
    ELSE rows

DonorMixShown(rows, show_all, ptype) ==
    TypeFilter(IF show_all THEN rows ELSE SelectSeq(rows, SameLast), ptype)

DonorMixTable(rows) ==
    LET sorted == SortValuesDesc(rows, [i \in 1..Len(rows) |-> <<rows[i].total_amount>>])
    IN [i \in 1..Len(sorted) |->
           [candidate_display |-> DisplayLabel(FillNa(sorted[i].candidate_last),
                                               FillNa(sorted[i].candidate_first)),
            contributor_type_group |-> sorted[i].contributor_type_group,
            total_amount |-> sorted[i].total_amount,
            txn_count |-> sorted[i].txn_count,
            unique_donors |-> sorted[i].unique_donors]]

RunByType ==
    /\ pc = "bytype"
    /\ LET key == <<"fetch_totals_by_type_fixed">> IN
       \E o \in OutcomesFor(key) :
          LET f == Fetch(key, o, SelectSeq(ByTypeView(ingested), InScope))
              req == IF f.hit THEN {}
                     ELSE {Request("v_candidate_totals_by_contributor_type", ScopeKeys, BlankArgs)}
              by_type_df == to_df(PyList(f.ret))
          IN /\ cache' = f.cache
             /\ faults' = faults + Fault(f, o)
             /\ reqs' = reqs \cup FnsOf(req)
             /\ sent' = req
             /\ IF f.raised
                THEN /\ pc' = "failed"
                     /\ page' = ExceptionPage(key, f)
                ELSE /\ pc' = IF show_all_candidates THEN "summary" ELSE "topdonors"
                     /\ page' = IF by_type_df = << >>
                                THEN Page({"info_no_bytype"}, << >>, << >>, key, f)
                                ELSE Page({}, DonorMixTable(DonorMixShown(by_type_df,
                                              show_all_candidates, p_contributor_type)),
                                          << >>, key, f)
    /\ UNCHANGED << ingested, runs, locals, buttons >>

\* positions of st.slider("Show top N donors", 10, 200, 50, step=10)
TopNOptions ==
    {n \in TopNMin..TopNMax : (n - TopNMin) % TopNStep = 0 /\ n <= MaxTopN}

\* variant of CtGroup: the elif branch for "Entity" is missing
CtGroupDropsEntity(ptype) == IF ptype = "Individual" THEN "Individual" ELSE None

\* lines 430-434
CtGroup(ptype) ==
    IF ptype = "Individual" THEN "Individual"
    ELSE IF ptype = "Entity" THEN "Entity"
    ELSE None

\* lines 197-198: the equality filter is added only for a truthy group
GroupFilterKeys(group) == IF group # None THEN {"contributor_type_group"} ELSE {}

\* the rows the query of lines 181-200 selects from cf.v_donor_to_candidate_typed
TopDonorsFilter(v, last, group) ==
    SelectSeq(DonorView(v),
              LAMBDA r : /\ InScope(r)
                         /\ r.candidate_last = last
                         /\ ("contributor_type_group" \in GroupFilterKeys(group)
                                => r.contributor_type_group = group))

TopDonorsQuery(v, last, group, top_n) ==
    LET rows == TopDonorsFilter(v, last, group)
    IN Take(SortValuesDesc(rows, [i \in 1..Len(rows) |-> <<rows[i].total_amount>>]), top_n)

\* top_df[show_cols] (lines 443-459)
TopDonorsTable(rows) ==
    [i \in 1..Len(rows) |->
        [contributor_name |-> rows[i].contributor_name,
         contributor_type_group |-> rows[i].contributor_type_group,
         total_amount |-> rows[i].total_amount]]

RunTopDonors ==
    /\ pc = "topdonors"
    /\ \E top_n \in TopNOptions :
       LET ct_group == CtGroup(p_contributor_type)
           key == <<"fetch_top_donors_for_candidate_fixed", selected_last, ct_group, top_n>>
       IN
       \E o \in OutcomesFor(key) :
          LET f == Fetch(key, o, TopDonorsQuery(ingested, selected_last, ct_group, top_n))
              keys == ScopeKeys \cup {"candidate_last", "order", "limit"}
                      \cup GroupFilterKeys(ct_group)
              req == IF f.hit THEN {}
                     ELSE {Request("v_donor_to_candidate_typed", keys,
                                   [BlankArgs EXCEPT !.last = selected_last,
                                                     !.ctype = ct_group, !.n = top_n])}
              top_df == to_df(PyList(f.ret))
          IN /\ cache' = f.cache
             /\ faults' = faults + Fault(f, o)
             /\ reqs' = reqs \cup FnsOf(req)
             /\ sent' = req
             /\ IF f.raised
                THEN /\ pc' = "failed"
                     /\ page' = ExceptionPage(key, f)
                ELSE /\ pc' = "summary"
                     /\ page' = IF top_df = << >>
                                THEN Page({"info_no_top_donors"}, << >>, << >>, key, f)
                                ELSE Page({}, TopDonorsTable(top_df), << >>, key, f)
    /\ UNCHANGED << ingested, runs, locals, buttons >>

(* ------------------- overlap tab (lines 470-565) ---------------------- *)
\* lines 507-508: the other candidates' last names offered in "Compare against"
OtherCandidates(rows) ==
    {rows[i].other_candidate_last : i \in {j \in 1..Len(rows) : Truthy(rows[j].other_candidate_last)}}

\* lines 489-504: the summary table, ordered by shared_donors descending
SummaryTable(rows) ==
    LET sorted == SortValuesDesc(rows, [i \in 1..Len(rows) |-> <<rows[i].shared_donors>>])
    IN [i \in 1..Len(sorted) |->
           [other_candidate_display |->
                DisplayLabel(FillNa(sorted[i].other_candidate_last),
                             FillNa(sorted[i].other_candidate_first)),
            other_candidate_last |-> sorted[i].other_candidate_last,
            shared_donors |-> sorted[i].shared_donors,
            shared_amount_to_candidate |-> sorted[i].shared_amount_to_candidate,
            shared_amount_to_other |-> sorted[i].shared_amount_to_other]]

RunSummary ==
    /\ pc = "summary"
    /\ LET key == <<"fetch_overlap_summary_fixed", selected_last, p_contributor_type>> IN
       \E o \in OutcomesFor(key) :
          LET f == Fetch(key, o, SummaryRpc(ingested, selected_last, p_contributor_type))
              req == IF f.hit THEN {}
                     ELSE {Request("get_overlap_summary_for_candidate",
                                   RpcScopeKeys \cup {"p_candidate_last", "p_contributor_type"},
                                   [BlankArgs EXCEPT !.last = selected_last,
                                                     !.ctype = p_contributor_type])}
              summary_df == to_df(PyList(f.ret))
              others == OtherCandidates(f.ret)
          IN /\ cache' = f.cache
             /\ faults' = faults + Fault(f, o)
             /\ reqs' = reqs \cup FnsOf(req)
             /\ sent' = req
             /\ IF f.raised
                THEN /\ pc' = "failed"
                     /\ page' = ExceptionPage(key, f)
                     /\ UNCHANGED summary_rows
                ELSE /\ summary_rows' = f.ret
                     /\ pc' = IF others = {} THEN "history" ELSE "pairwise"
                     /\ page' = Page((IF summary_df = << >> THEN {"info_no_summary"} ELSE {})
                                     \cup (IF others = {} THEN {"info_no_others"} ELSE {}),
                                     SummaryTable(summary_df), << >>, key, f)
    /\ UNCHANGED << ingested, runs, cand_display, cand_last_list, cand_first_list,
                    selected_last, selected_first, current_year_only,
                    contrib_type_ui, p_contributor_type, show_all_candidates, picked, buttons >>

\* lines 534-543: the drill-down table, ordered by amount_to_a, amount_to_b descending
PairTable(rows, other) ==
    LET sorted == SortValuesDesc(rows, [i \in 1..Len(rows) |-> <<rows[i].amount_to_a, rows[i].amount_to_b>>])
    IN [i \in 1..Len(sorted) |-> sorted[i] @@ [other_candidate_last |-> other]]

RunPairwise ==
    /\ pc = "pairwise"
    /\ \E selected_other_last \in OtherCandidates(summary_rows), run_pair \in BOOLEAN :
          IF ~run_pair
          THEN /\ page' = [NoPage EXCEPT !.msgs = {"info_click_compare"}]
               /\ pc' = "history"
               /\ sent' = {}
               /\ UNCHANGED << cache, faults, reqs >>
          ELSE LET key == <<"fetch_overlap_pairwise_fixed", selected_last,
                            selected_other_last, p_contributor_type>>
               IN
               \E o \in OutcomesFor(key) :
                  LET f == Fetch(key, o, PairwiseRpc(ingested, selected_last,
                                                     selected_other_last, p_contributor_type))
                      req == IF f.hit THEN {}
                             ELSE {Request("get_donor_overlap_pairwise",
                                           RpcScopeKeys \cup {"p_candidate_a_last",
                                               "p_candidate_b_last", "p_contributor_type"},
                                           [BlankArgs EXCEPT !.last = selected_last,
                                                             !.other = selected_other_last,
                                                             !.ctype = p_contributor_type])}
                      pair_df == to_df(PyList(f.ret))
                  IN /\ cache' = f.cache
                     /\ faults' = faults + Fault(f, o)
                     /\ reqs' = reqs \cup FnsOf(req)
                     /\ sent' = req
                     /\ page' = IF f.raised THEN ExceptionPage(key, f)
                                ELSE IF pair_df = << >>
                                THEN Page({"info_no_pair"}, << >>, << >>, key, f)
                                ELSE Page({}, PairTable(pair_df, selected_other_last), << >>, key, f)
                     /\ pc' = IF f.raised THEN "failed" ELSE "history"
    /\ UNCHANGED << ingested, runs, locals, buttons >>

(* ---------------- donor history tab (lines 571-650) ------------------- *)
\* positions of st.slider("How many top donors to include", 100, 5000, 1500, step=100)
LimitOptions ==
    {n \in LimitMin..LimitMax : (n - LimitMin) % LimitStep = 0 /\ n <= MaxLimit}

\* rows get_donor_history_for_candidate may return (stored procedure, opaque):
\* any sequence over a pool that holds a tie on both amounts
HistRow(name, to_cand, to_other, olast, ofirst) ==
    [contributor_name |-> name, amount_to_candidate |-> to_cand, total_to_other |-> to_other,
     other_candidate_last |-> olast, other_candidate_first |-> ofirst]
HistRowPool == { HistRow(1, 20, 10, ROE, BO), HistRow(2, 20, 10, ABE, AL) }
HistoryCases == UNION {[1..k -> HistRowPool] : k \in 0..MaxHistRows}

\* rows get_entity_donors_with_other_candidate_history may return
EntityRowPool ==
    { [contributor_name |-> 1, amount_to_candidate |-> 20, amount_to_others |-> 5,
       other_candidates |-> PyList(<<ROE, ABE>>)],
      [contributor_name |-> 2, amount_to_candidate |-> 20, amount_to_others |-> 9,
       other_candidates |-> PyNone] }
EntityCases == UNION {[1..k -> EntityRowPool] : k \in 0..MaxHistRows}

\* ", ".join(names)
RECURSIVE Join(_)
Join(names) ==
    IF names = << >> THEN << >>
    ELSE IF Len(names) = 1 THEN names[1]
    ELSE names[1] \o <<44, 32>> \o Join(Tail(names))

\* lines 589-592 with the payloads of lines 148-155 and 161-169
HistoryKey(ptype, last, first, limit, cyo) ==
    IF ptype = "Entity"
    THEN <<"fetch_entity_history_fixed", last, first, limit, cyo>>
    ELSE <<"fetch_donor_history_fixed", last, ptype, limit>>

HistoryRequest(ptype, last, first, limit, cyo) ==
    IF ptype = "Entity"
    THEN Request("get_entity_donors_with_other_candidate_history",
                 RpcScopeKeys \cup {"p_candidate_last", "p_candidate_first", "p_limit",
                                    "p_current_year_only"},
                 [BlankArgs EXCEPT !.last = last, !.first = first, !.n = limit, !.cyo = cyo])
    ELSE Request("get_donor_history_for_candidate",
                 RpcScopeKeys \cup {"p_candidate_last", "p_contributor_type", "p_limit"},
                 [BlankArgs EXCEPT !.last = last, !.ctype = ptype, !.n = limit])

\* lines 606-644: the table of the Entity branch and of the other branch
HistoryTable(ptype, rows) ==
    IF ptype = "Entity"
    THEN LET sorted == SortValuesDesc(rows, [i \in 1..Len(rows) |-> <<rows[i].amount_to_candidate, rows[i].amount_to_others>>])
         IN [i \in 1..Len(sorted) |->
                [contributor_name |-> sorted[i].contributor_name,
                 amount_to_candidate |-> sorted[i].amount_to_candidate,
                 amount_to_others |-> sorted[i].amount_to_others,
                 other_candidates_display |->
                     IF sorted[i].other_candidates.null THEN << >>
                     ELSE Join(sorted[i].other_candidates.data)]]
    ELSE LET sorted == SortValuesDesc(rows, [i \in 1..Len(rows) |-> <<rows[i].amount_to_candidate, rows[i].total_to_other>>])
         IN [i \in 1..Len(sorted) |->
                [contributor_name |-> sorted[i].contributor_name,
                 amount_to_candidate |-> sorted[i].amount_to_candidate,
                 total_to_other |-> sorted[i].total_to_other,
                 other_candidate_display |->
                     DisplayLabel(FillNa(sorted[i].other_candidate_last),
                                  FillNa(sorted[i].other_candidate_first))]]

RunHistory ==
    /\ pc = "history"
    /\ \E limit \in LimitOptions, pressed \in BOOLEAN :
          /\ run_history' = pressed
          /\ IF ~pressed
             THEN /\ page' = [NoPage EXCEPT !.msgs = {"info_click_history"}]
                  /\ pc' = "done"
                  /\ sent' = {}
                  /\ UNCHANGED << cache, faults, reqs >>
             ELSE LET key == HistoryKey(p_contributor_type, selected_last, selected_first,
                                        limit, current_year_only)
                  IN
                  \E o \in OutcomesFor(key),
                     rows \in (IF p_contributor_type = "Entity" THEN EntityCases ELSE HistoryCases) :
                     LET f == Fetch(key, o, rows)
                         req == IF f.hit THEN {}
                                ELSE {HistoryRequest(p_contributor_type, selected_last,
                                                     selected_first, limit, current_year_only)}
                         hist_df == to_df(PyList(f.ret))
                     IN /\ cache' = f.cache
                        /\ faults' = faults + Fault(f, o)
                        /\ reqs' = reqs \cup FnsOf(req)
                        /\ sent' = req
                        /\ pc' = IF f.raised THEN "failed" ELSE "done"
                        /\ page' = IF f.raised THEN ExceptionPage(key, f)
                                   ELSE IF hist_df = << >>
                                   THEN Page({"info_no_history"}, << >>, << >>, key, f)
                                   ELSE Page(IF p_contributor_type = "Entity"
                                             THEN {"info_entity_history"} ELSE {},
                                             HistoryTable(p_contributor_type, hist_df),
                                             << >>, key, f)
    /\ UNCHANGED << ingested, runs, locals, pressed_before >>

Next ==
    \/ Ingest
    \/ TtlExpire
    \/ RunSidebar
    \/ RunContactForm
    \/ RunTotals
    \/ RunByType
    \/ RunTopDonors
    \/ RunSummary
    \/ RunPairwise
    \/ RunHistory

Spec == Init /\ [][Next]_vars

(* ============================ properties ============================== *)
Messages ==
    {"exception", "warn_no_candidates", "info_entity_sidebar", "err_invalid_email",
     "ok_signed_up", "err_signup_failed", "info_no_totals", "info_no_bytype",
     "info_no_top_donors", "info_no_summary", "info_no_others", "info_click_compare",
     "info_no_pair", "info_click_history", "info_no_history", "info_entity_history"}

TypeOK ==
    /\ ingested \in 0..MaxIngest
    /\ runs \in 0..MaxRuns
    /\ faults \in 0..MaxFaults
    /\ pc \in {"idle", "form", "totals", "bytype", "topdonors", "summary", "pairwise",
               "history", "done", "stopped", "failed"}
    /\ page.msgs \subseteq Messages
    /\ contrib_type_ui \in {"All", "Individual", "Entity"}
    /\ Len(cand_display) = Len(cand_last_list)
    /\ \A e \in cache : e.key[1] \in Cached

HistoryFns == {"fetch_donor_history_fixed", "fetch_entity_history_fixed"}
HistoryRpcs == {"get_donor_history_for_candidate",
                "get_entity_donors_with_other_candidate_history"}
InsertFn == "contact_signups.insert"

\* C1: a backend call that did not compute (its response carries no data, or
\* data is None) never comes back from a fetcher as the empty list a successful
\* zero-match call returns: it either raises or returns something else.
FailuresNeverServedAsEmpty ==
    \A s \in page.served :
        s.how \in {"none", "absent"} => (s.raised \/ s.ret # << >>)

\* C2: a cached result computed before the latest completed ingestion is shown
\* only together with a label that marks it as stale.  No st.* call of the page
\* emits such a label, so the label is absent from every page.
CachedResultsFreshOrLabelled ==
    \A s \in page.served :
        (s.fn \in Cached /\ ~s.raised /\ s.ver < s.cur) => "stale_result" \in page.msgs

\* the donor-mix row r of the backend result is on the page
InMix(r, table) ==
    \E j \in 1..Len(table) :
        /\ table[j].contributor_type_group = r.contributor_type_group
        /\ table[j].total_amount = r.total_amount
        /\ table[j].candidate_display =
               DisplayLabel(FillNa(r.candidate_last), FillNa(r.candidate_first))

\* C3: with "All" selected p_contributor_type is None, the donor-mix table keeps
\* every row of the selected candidate(s) whatever its contributor type, the
\* top-donors query carries no contributor_type_group condition, and the overlap
\* and donor-history RPCs receive a null p_contributor_type.
AllMeansNoRestriction ==
    contrib_type_ui = "All" =>
        /\ p_contributor_type = None
        /\ \A s \in page.served :
              (s.fn = "fetch_totals_by_type_fixed" /\ ~s.raised) =>
                  \A i \in 1..Len(s.ret) :
                      (show_all_candidates \/ SameLast(s.ret[i])) => InMix(s.ret[i], page.table)
        /\ \A r \in sent :
              /\ r.fn = "v_donor_to_candidate_typed" => "contributor_type_group" \notin r.keys
              /\ r.fn \in {"get_overlap_summary_for_candidate", "get_donor_overlap_pairwise",
                           "get_donor_history_for_candidate"}
                     => ("p_contributor_type" \in r.keys /\ r.ctype = None)
              /\ r.fn # "get_entity_donors_with_other_candidate_history"

AllShowsUnknownRows ==
    /\ contrib_type_ui = "All"
    /\ \E s \in page.served : s.fn = "fetch_totals_by_type_fixed"
    /\ \E j \in 1..Len(page.table) : page.table[j].contributor_type_group = "Unknown"

\* donors of the selected candidate in the store at ingestion count v
DonorsOfSelected(v) ==
    SelectSeq(DonorView(v), LAMBDA r : InScope(r) /\ r.candidate_last = selected_last)

\* the top-donors table holds exactly the n largest of the rows `wanted`
IsTopOf(table, wanted, n) ==
    /\ Len(table) = (IF Len(wanted) < n THEN Len(wanted) ELSE n)
    /\ \A j \in 1..Len(table) :
          \E i \in 1..Len(wanted) :
              /\ wanted[i].contributor_name = table[j].contributor_name
              /\ wanted[i].contributor_type_group = table[j].contributor_type_group
              /\ wanted[i].total_amount = table[j].total_amount
    /\ \A i \in 1..Len(wanted) :
          (\A j \in 1..Len(table) : table[j].contributor_name # wanted[i].contributor_name)
              => \A j \in 1..Len(table) : wanted[i].total_amount <= table[j].total_amount

\* C4: with "Individual" or "Entity" selected, the donor-mix table and the
\* top-donors list hold rows of that contributor_type_group only (Unknown, None
\* and every other group are left out) and lose no row of that group; with
\* "All" selected rows of every group are kept.
TypeFilterExcludesOthers ==
    /\ \A s \in page.served :
          (s.fn = "fetch_totals_by_type_fixed" /\ ~s.raised) =>
              /\ contrib_type_ui # "All" =>
                    \A j \in 1..Len(page.table) :
                        page.table[j].contributor_type_group = contrib_type_ui
              /\ \A i \in 1..Len(s.ret) :
                    ( /\ show_all_candidates \/ SameLast(s.ret[i])
                      /\ contrib_type_ui \in {"All", s.ret[i].contributor_type_group} )
                        => InMix(s.ret[i], page.table)
    /\ \A s \in page.served :
          (s.fn = "fetch_top_donors_for_candidate_fixed" /\ s.how = "rows") =>
              IsTopOf(page.table,
                      IF contrib_type_ui = "All" THEN DonorsOfSelected(s.ver)
                      ELSE SelectSeq(DonorsOfSelected(s.ver),
                                     LAMBDA r : r.contributor_type_group = contrib_type_ui),
                      s.key[4])

EntityFilterShowsEntitiesOnly ==
    /\ contrib_type_ui = "Entity"
    /\ \E s \in page.served : s.fn = "fetch_top_donors_for_candidate_fixed"
    /\ page.table # << >>
    /\ \E i \in 1..Len(DonorsOfSelected(ingested)) :
          DonorsOfSelected(ingested)[i].contributor_type_group = "Unknown"

\* C5: whatever the backend response (data a list, an empty list, None, or no
\* data attribute), every fetcher returns a list, and an empty one puts the
\* page on its "no rows" branch: nothing fails.
FetchersAlwaysReturnList ==
    \A s \in page.served :
        s.how \in {"rows", "none", "absent"} =>
            /\ ~s.raised
            /\ s.ret = << >> => (page.table = << >> /\ "exception" \notin page.msgs)

\* C6: when a limit may have cut the result short (the top-donors query returned
\* as many rows as its limit, or the donor-history RPC ran under p_limit), the
\* page tells the user that the result may be incomplete.  No st.* call of the
\* page emits such a notice.
TruncationSurfaced ==
    \A s \in page.served :
        ( \/ s.fn = "fetch_top_donors_for_candidate_fixed" /\ Len(s.ret) = s.key[4]
          \/ s.fn \in HistoryFns /\ s.how = "rows" /\ s.ret # << >> )
            => "result_may_be_incomplete" \in page.msgs

\* C7: a submission whose e-mail is empty or has no "@" issues no insert and
\* shows the error; the success message appears only after an insert that
\* raised nothing and returned data that is not None.
ContactRequiresAt ==
    /\ ( /\ page.form.submitted
         /\ page.form.email = << >> \/ \A i \in 1..Len(page.form.email) : page.form.email[i] # 64 )
          => /\ "err_invalid_email" \in page.msgs
             /\ "ok_signed_up" \notin page.msgs
             /\ InsertFn \notin reqs
             /\ \A r \in sent : r.fn # InsertFn
    /\ "ok_signed_up" \in page.msgs
          => /\ \E r \in sent : r.fn = InsertFn /\ Contains(r.email, 64)
             /\ page.form.ins = "rows"

EmailWithoutAtRejected ==
    /\ page.form.submitted
    /\ page.form.email = <<97>>
    /\ "err_invalid_email" \in page.msgs

\* C8: when the candidates view yields no row with both names, the page shows
\* the warning and stops; nothing but the candidates view is requested in that
\* run, and every later segment and request has a selected candidate with both
\* names.
NoRowHasBothNames(rows) ==
    \A i \in 1..Len(rows) : ~(Truthy(rows[i].candidate_last) /\ Truthy(rows[i].candidate_first))

MissingCandidateStops ==
    /\ \A s \in page.served :
          (s.fn = "fetch_candidates_ce_2026" /\ ~s.raised /\ NoRowHasBothNames(s.ret))
              => /\ pc = "stopped"
                 /\ "warn_no_candidates" \in page.msgs
                 /\ "exception" \notin page.msgs
                 /\ reqs \subseteq {"v_candidates_ce_2026"}
    /\ pc = "stopped" => reqs \subseteq {"v_candidates_ce_2026"}
    /\ (pc \notin {"idle", "stopped", "failed"} \/ reqs \ {"v_candidates_ce_2026"} # {})
          => (Truthy(selected_last) /\ Truthy(selected_first))

StoppedOnRowsWithoutNames ==
    /\ pc = "stopped"
    /\ "warn_no_candidates" \in page.msgs
    /\ \E s \in page.served : s.how = "rows" /\ s.ret # << >>

\* rows i < j of a table are never in the wrong order for: amount to the target
\* descending, then amount to the other descending, then other name ascending
DisplayOrdered(table, ToTarget(_), ToOther(_), OtherName(_)) ==
    \A i, j \in 1..Len(table) :
        i < j =>
            ~ \/ ToTarget(table[j]) > ToTarget(table[i])
              \/ /\ ToTarget(table[j]) = ToTarget(table[i])
                 /\ ToOther(table[j]) > ToOther(table[i])
              \/ /\ ToTarget(table[j]) = ToTarget(table[i])
                 /\ ToOther(table[j]) = ToOther(table[i])
                 /\ StrLess(OtherName(table[j]), OtherName(table[i]))

\* C9: the overlap summary, the pairwise drill-down and the donor-history table
\* are displayed by total to the target descending, then total to the other
\* descending, then other candidate name ascending.
DisplayTieBreakByName ==
    \A s \in page.served :
        /\ s.fn = "fetch_donor_history_fixed" =>
              DisplayOrdered(page.table, LAMBDA r : r.amount_to_candidate,
                             LAMBDA r : r.total_to_other, LAMBDA r : r.other_candidate_display)
        /\ s.fn = "fetch_overlap_pairwise_fixed" =>
              DisplayOrdered(page.table, LAMBDA r : r.amount_to_a,
                             LAMBDA r : r.amount_to_b, LAMBDA r : r.other_candidate_last)
        /\ s.fn = "fetch_overlap_summary_fixed" =>
              DisplayOrdered(page.table, LAMBDA r : r.shared_amount_to_candidate,
                             LAMBDA r : r.shared_amount_to_other,
                             LAMBDA r : r.other_candidate_display)

\* C10: whatever the contributor type, the request "Run donor history" issues
\* carries the current value of the "Only donors to this candidate in 2026"
\* toggle.
HistoryRequestCarriesToggle ==
    \A r \in sent :
        r.fn \in HistoryRpcs =>
            ("p_current_year_only" \in r.keys /\ r.cyo = current_year_only)

\* C11: donor history is not cached and is loaded on demand.  In every run a
\* donor-history RPC has been issued exactly when "Run donor history" was
\* pressed in that run; a press issues exactly one such RPC, the entity RPC
\* exactly when the contributor type is Entity, and its result never comes
\* from st.cache_data; a run without the press ends on the prompt with no
\* history rows and no request.
HistoryLoadedOnDemand ==
    /\ \A e \in cache : e.key[1] \notin HistoryFns
    /\ (reqs \cap HistoryRpcs # {}) <=> run_history
    /\ run_history =>
          /\ pc \in {"done", "failed"}
          /\ Cardinality(sent) = 1
          /\ \A r \in sent :
                r.fn = (IF p_contributor_type = "Entity"
                        THEN "get_entity_donors_with_other_candidate_history"
                        ELSE "get_donor_history_for_candidate")
          /\ \A s \in page.served : s.fn \in HistoryFns /\ ~s.hit
    /\ (pc = "done" /\ ~run_history) =>
          /\ page.msgs = {"info_click_history"}
          /\ page.table = << >>
          /\ page.served = {}
          /\ sent = {}

\* the button is pressed again in a later run: the RPC is issued again and the
\* rows on the page are those of this run's call
HistoryPressedAgainIssuesRpc ==
    /\ pressed_before
    /\ run_history
    /\ pc = "done"
    /\ page.table # << >>
    /\ \E r \in sent : r.fn = "get_donor_history_for_candidate"

\* C12: the three candidate lists have equal length, and the candidate used for
\* the requests is the one picked: selected_last and selected_first are the
\* candidate_last and candidate_first of the row at the picked position of the
\* selectbox, also when two rows have the same title-cased label.
SelectedIsPicked ==
    /\ Len(cand_display) = Len(cand_last_list)
    /\ Len(cand_display) = Len(cand_first_list)
    /\ picked # 0 =>
          /\ picked \in 1..Len(cand_display)
          /\ selected_last = cand_last_list[picked]
          /\ selected_first = cand_first_list[picked]

\* the row r belongs to the selected candidate
OfSelected(r) ==
    r.candidate_last = selected_last /\ r.candidate_first = selected_first

\* C13: with "Show all candidates" off, "Total raised" and "Transactions" are the
\* sums of total_amount and txn_count over exactly the totals rows of the
\* selected (candidate_last, candidate_first), and every row of the donor-mix
\* table is a row of that candidate, also when another candidate has the same
\* last name up to letter case.
OverviewOfSelectedOnly ==
    ~show_all_candidates =>
        \A s \in page.served :
            /\ (s.fn = "fetch_candidate_totals_fixed" /\ ~s.raised /\ s.ret # << >>) =>
                  LET own == SelectSeq(s.ret, OfSelected)
                  IN page.metrics =
                         << SumSeq([i \in 1..Len(own) |-> own[i].total_amount]),
                            SumSeq([i \in 1..Len(own) |-> own[i].txn_count]) >>
            /\ (s.fn = "fetch_totals_by_type_fixed" /\ ~s.raised) =>
                  \A j \in 1..Len(page.table) :
                      \E i \in 1..Len(s.ret) :
                          /\ OfSelected(s.ret[i])
                          /\ s.ret[i].contributor_type_group =
                                 page.table[j].contributor_type_group
                          /\ s.ret[i].total_amount = page.table[j].total_amount

====
